---- MODULE Spec2Model ----
(***************************************************************************)
(* Model of src/src/clean_dataset.py: the directory walk of clean_dataset,  *)
(* the frame sampling loop and metric extraction of analyze_video_quality,  *)
(* the acceptance policy of evaluate_video_acceptance and the aggregation   *)
(* of generate_cleaning_report.                                             *)
(*                                                                          *)
(* Floats are modelled as exact rationals <<numerator, denominator>>; a     *)
(* denominator of 0 is float("nan"), and every ordered comparison with it   *)
(* is false, as in Python.                                                  *)
(***************************************************************************)
EXTENDS Integers, Sequences, FiniteSets, TLC

(* ----------------------------- bounds ---------------------------------- *)
\* directories yielded by os.walk
MaxDirs == 2
\* files in one directory
MaxFiles == 2
\* video files analysed in one run
MaxVideos == 2
\* largest num_frames passed to analyze_video_quality
MaxNumFrames == 5
\* largest frame_stride passed to analyze_video_quality
MaxStride == 2
\* largest frame count the decoder reports
MaxFrameCount == 5

(* ------------------------ program constants ---------------------------- *)
MIN_FRAME_WIDTH == 640
MIN_FRAME_HEIGHT == 360
MIN_SHARPNESS_SCORE == 50
MIN_BRIGHTNESS == 35
MAX_BRIGHTNESS == 190
\* MOTION_MIN_PIXEL_CHANGE_RATIO = 0.01, in changed pixels per thousand
MOTION_MIN_PIXEL_CHANGE_RATIO == 10
\* MOTION_MIN_ACTIVE_FRAME_PCT = 0.3, as the rational 3/10
MOTION_MIN_ACTIVE_FRAME_PCT == <<3, 10>>

\* json.load(MOTION_FLAGS_FILE): category name -> motion policy
MOTION_FLAGS == [squat |-> TRUE, plank |-> FALSE]

\* (".mp4", ".avi", ".mov")
video_extensions == {".mp4", ".avi", ".mov"}

(* --------------------------- input domains ----------------------------- *)
\* leaf directory names; "misc" is absent from MOTION_FLAGS
FolderNames == {"squat", "plank", "misc"}
\* files of a directory: stem and extension as written on disk
FileNames == {<<"a", ".mp4">>, <<"b", ".MOV">>, <<"c", ".txt">>}
\* (width, height) pairs the decoder reports
Resolutions == {<<639, 360>>, <<640, 359>>, <<640, 360>>}
\* frame counts the decoder reports, reliable or not
FrameCounts == {-1, 0, MaxFrameCount}
\* gray.mean() of one frame
FrameBrightness == {34, 36, 191}
\* lap.var() of one frame
FrameSharpness == {49, 51}
\* changed pixels per thousand between two sampled frames
ChangeRatios == {9, 10}
\* (num_frames, frame_stride) given to one call of analyze_video_quality
CallArgs == (0..MaxNumFrames) \X (1..MaxStride)

\* The directory walk is explored with the arguments and the decoder outputs
\* below.  clean_dataset passes NUM_SAMPLED_FRAMES = 20 and FRAME_STRIDE = 15;
\* the walk passes a scaled-down pair, enough for one motion pair per video.
\* Its videos are accepted, or rejected as corrupted, for their resolution,
\* for their motion, or for both; brightness and sharpness pass.
WalkArgs == {<<2, 1>>}
WalkFolderNames == {"squat", "plank"}
WalkResolutions == {<<639, 360>>, <<640, 360>>}
WalkFrameCounts == {2}
WalkBrightness == {36}
WalkSharpness == {51}

(* ------------------------------ floats --------------------------------- *)
NaN == <<0, 0>>
IsNaN(x) == x[2] = 0
Lt(x, c) == x[2] > 0 /\ x[1] < c * x[2]
Gt(x, c) == x[2] > 0 /\ x[1] > c * x[2]
\* x >= r for a rational r with positive denominator
GeRat(x, r) == x[2] > 0 /\ x[1] * r[2] >= r[1] * x[2]

\* A list of floats that is only ever averaged is kept as <<sum, length>>.
EmptyList == <<0, 0>>
ListAppend(xs, x) == <<xs[1] + x, xs[2] + 1>>
\* np.mean(xs) if xs else float("nan")
Mean(xs) == IF xs[2] = 0 THEN NaN ELSE <<xs[1], xs[2]>>

Max2(a, b) == IF a > b THEN a ELSE b

\* dict.get(key, default)
Get(d, k, default) == IF k \in DOMAIN d THEN d[k] ELSE default

Contains(s, x) == \E i \in 1..Len(s) : s[i] = x

(* ------------------------------ state ---------------------------------- *)
VARIABLES
    pc,                      \* position of clean_dataset
    dirs_walked,             \* directories os.walk has yielded so far
    videos_seen,             \* video files analysed so far
    folder_name,             \* root_path.name of the current directory
    files,                   \* files of the current directory still to visit
    exercise_stats,          \* counters of the current directory
    any_video,
    overall_exercise_stats,  \* one row per directory that held a video
    totals,                  \* running global totals
    VIDEO_LOG,               \* per-file audit records, in processing order
    copied,                  \* paths copied into the destination tree
    total_row,               \* TOTAL row of the cleaning report, <<>> if none
    accepted, reasons,       \* what evaluate_video_acceptance returned last
    cap,                     \* decoder handle of the video being analysed
    num_frames, frame_stride,
    width, height, frame_count,
    sampled_brightness, sampled_sharpness,
    frame_index, samples_collected,
    prev_gray_for_motion,    \* TRUE when a previous blurred frame is held
    active_count, motion_pairs,
    change_ratios,           \* <<sum, length>> of the change ratios
    max_change_ratio,        \* np.max(change_ratios), 0 while the list is empty
    motion_flag,
    reads,                   \* history: cap.read() calls of this analysis
    decoded,                 \* history: cap.read() calls that gave a frame
    metrics, issues          \* what analyze_video_quality returned

walk_vars == <<dirs_walked, videos_seen, folder_name, files, any_video>>
stat_vars == <<exercise_stats, overall_exercise_stats, totals, total_row>>
out_vars == <<VIDEO_LOG, copied, accepted, reasons>>
arg_vars == <<num_frames, frame_stride, width, height, frame_count, motion_flag>>
loop_vars == <<sampled_brightness, sampled_sharpness, frame_index,
               samples_collected, prev_gray_for_motion, active_count,
               motion_pairs, change_ratios, max_change_ratio, reads, decoded>>
ret_vars == <<metrics, issues>>
vars == <<pc, walk_vars, stat_vars, out_vars, cap, arg_vars, loop_vars, ret_vars>>

(* ------------------------- pure functions ------------------------------ *)
CounterFields == {"total_videos", "accepted_videos", "rejected_videos",
                  "corrupted_files", "low_resolution", "too_dark",
                  "too_bright", "blurry", "insufficient_motion"}

default_stats(exercise_name) ==
    [Exercise |-> exercise_name,
     total_videos |-> 0, accepted_videos |-> 0, rejected_videos |-> 0,
     corrupted_files |-> 0, low_resolution |-> 0, too_dark |-> 0,
     too_bright |-> 0, blurry |-> 0, insufficient_motion |-> 0]

Incr(stats, key) == [stats EXCEPT ![key] = @ + 1]

\* file.lower() on the extension of a file name
Lower(ext) ==
    CASE ext = ".MP4" -> ".mp4"
      [] ext = ".AVI" -> ".avi"
      [] ext = ".MOV" -> ".mov"
      [] ext = ".TXT" -> ".txt"
      [] OTHER -> ext

\* file.lower().endswith(video_extensions)
IsVideo(file) == Lower(file[2]) \in video_extensions

\* max(frame_count, num_frames * frame_stride + 1)
IndexLimit(count, n, stride) == Max2(count, n * stride + 1)

\* the loop condition with the limit itself still attempted
LoopCond_inclusive(collected, index, count, n, stride) ==
    collected < n /\ index <= IndexLimit(count, n, stride)

\* the loop condition of the sampling loop
LoopCond(collected, index, count, n, stride) ==
    collected < n /\ index < IndexLimit(count, n, stride)

\* a failed read that retries the same index
SkipIndex_stay(index, stride) == index

\* frame_index += frame_stride after a failed read
SkipIndex(index, stride) == index + stride

\* the thresholds of evaluate_video_acceptance
IsCorrupted(iss, brightness, sharpness) ==
    Contains(iss, "corrupted_file") \/ IsNaN(brightness) \/ IsNaN(sharpness)
\* the resolution check with `and` for `or`
LowResolution_and(w, h) == w < MIN_FRAME_WIDTH /\ h < MIN_FRAME_HEIGHT
LowResolution(w, h) == w < MIN_FRAME_WIDTH \/ h < MIN_FRAME_HEIGHT
TooDark(brightness) == Lt(brightness, MIN_BRIGHTNESS)
TooBright(brightness) == Gt(brightness, MAX_BRIGHTNESS)
\* the sharpness check with `<=` for `<`
Blurry_le(sharpness) == ~Gt(sharpness, MIN_SHARPNESS_SCORE)
Blurry(sharpness) == Lt(sharpness, MIN_SHARPNESS_SCORE)
InsufficientMotion(detected, flag) == (~detected) /\ flag

\* one check of evaluate_video_acceptance: the counter, the reason and the
\* verdict when it fires
Fire(r, cond, tag) ==
    IF cond
    THEN [accepted |-> FALSE,
          reasons |-> Append(r.reasons, tag),
          stats |-> Incr(r.stats, tag)]
    ELSE r

\* the corrupted-file exit: one counter, one reason, return False
CorruptedExit(r) ==
    [accepted |-> FALSE,
     reasons |-> Append(r.reasons, "corrupted_file"),
     stats |-> Incr(r.stats, "corrupted_files")]

\* the threshold checks, in the order of the code
ThresholdChecks(m, r0) ==
    LET w == Get(m, "width", 0)
        h == Get(m, "height", 0)
        brightness == Get(m, "mean_brightness", NaN)
        sharpness == Get(m, "sharpness_score", NaN)
        detected == Get(m, "motion_detected", FALSE)
        flag == Get(m, "motion_flag", FALSE)
        r1 == Fire(r0, LowResolution(w, h), "low_resolution")
        r2 == IF TooDark(brightness)
              THEN Fire(r1, TRUE, "too_dark")
              ELSE Fire(r1, TooBright(brightness), "too_bright")
        r3 == Fire(r2, Blurry(sharpness), "blurry")
        r4 == Fire(r3, InsufficientMotion(detected, flag), "insufficient_motion")
    IN  r4

\* a corrupted-file branch without its `return`: the checks run on
evaluate_without_return(m, iss, stats) ==
    LET r0 == [accepted |-> TRUE, reasons |-> <<>>, stats |-> stats]
    IN  IF IsCorrupted(iss, Get(m, "mean_brightness", NaN),
                       Get(m, "sharpness_score", NaN))
        THEN ThresholdChecks(m, CorruptedExit(r0))
        ELSE ThresholdChecks(m, r0)

evaluate_video_acceptance(m, iss, stats) ==
    LET r0 == [accepted |-> TRUE, reasons |-> <<>>, stats |-> stats]
    IN  IF IsCorrupted(iss, Get(m, "mean_brightness", NaN),
                       Get(m, "sharpness_score", NaN))
        THEN CorruptedExit(r0)
        ELSE ThresholdChecks(m, r0)

\* the policy lookup defaulting to True
MotionPolicy_defaultOn(exercise_name) == Get(MOTION_FLAGS, exercise_name, TRUE)

\* MOTION_FLAGS.get(exercise_name, False)
MotionPolicy(exercise_name) == Get(MOTION_FLAGS, exercise_name, FALSE)

\* motion detected as soon as one pair is active
MotionDetected_any(pct) == pct[1] > 0

\* motion_active_frame_pct >= MOTION_MIN_ACTIVE_FRAME_PCT
MotionDetected(pct) == GeRat(pct, MOTION_MIN_ACTIVE_FRAME_PCT)

\* the metrics dictionary built at the end of analyze_video_quality
BuildMetrics ==
    LET computed == motion_flag /\ motion_pairs > 0
        pct == IF computed THEN <<active_count, motion_pairs>> ELSE NaN
    IN  [width |-> width,
         height |-> height,
         mean_brightness |-> Mean(sampled_brightness),
         sharpness_score |-> Mean(sampled_sharpness),
         motion_flag |-> motion_flag,
         motion_detected |-> computed /\ MotionDetected(pct),
         motion_pairs |-> IF motion_flag THEN motion_pairs ELSE 0,
         motion_active_pairs |-> IF motion_flag THEN active_count ELSE 0,
         motion_active_frame_pct |-> pct,
         motion_mean_change_ratio |-> IF computed THEN Mean(change_ratios) ELSE NaN,
         motion_max_change_ratio |->
             IF computed /\ change_ratios[2] > 0
             THEN <<max_change_ratio, 1>> ELSE NaN]

\* df[field].sum() over the per-category rows
RECURSIVE ColumnSum(_, _)
ColumnSum(rows, field) ==
    IF rows = <<>> THEN 0 ELSE Head(rows)[field] + ColumnSum(Tail(rows), field)

\* the total_row of generate_cleaning_report
TotalRow(rows) ==
    [f \in CounterFields \cup {"Exercise"} |->
        IF f = "Exercise" THEN "TOTAL" ELSE ColumnSum(rows, f)]

\* totals[key] = exercise_stats[key]: the row overwrites the totals
FoldTotals_overwrite(t, stats) ==
    [f \in DOMAIN t |-> IF f = "Exercise" THEN t[f] ELSE stats[f]]

\* totals[key] += exercise_stats[key] for every key but "Exercise"
FoldTotals(t, stats) ==
    [f \in DOMAIN t |-> IF f = "Exercise" THEN t[f] ELSE t[f] + stats[f]]

(* ------------------------------ actions -------------------------------- *)
\* the metrics dictionary before analyze_video_quality has returned one
NoMetrics == [k \in {} |-> 0]

\* the locals of analyze_video_quality before the function is entered
NoLocals ==
    /\ num_frames = 0 /\ frame_stride = 1
    /\ width = 0 /\ height = 0 /\ frame_count = 0 /\ motion_flag = FALSE
    /\ sampled_brightness = EmptyList /\ sampled_sharpness = EmptyList
    /\ frame_index = 0 /\ samples_collected = 0
    /\ prev_gray_for_motion = FALSE
    /\ active_count = 0 /\ motion_pairs = 0
    /\ change_ratios = EmptyList /\ max_change_ratio = 0
    /\ reads = 0 /\ decoded = 0
    /\ metrics = NoMetrics /\ issues = <<>>

\* the locals go out of scope when the video has been dealt with
DropLocals ==
    /\ num_frames' = 0 /\ frame_stride' = 1
    /\ width' = 0 /\ height' = 0 /\ frame_count' = 0 /\ motion_flag' = FALSE
    /\ sampled_brightness' = EmptyList /\ sampled_sharpness' = EmptyList
    /\ frame_index' = 0 /\ samples_collected' = 0
    /\ prev_gray_for_motion' = FALSE
    /\ active_count' = 0 /\ motion_pairs' = 0
    /\ change_ratios' = EmptyList /\ max_change_ratio' = 0
    /\ reads' = 0 /\ decoded' = 0
    /\ metrics' = NoMetrics /\ issues' = <<>>

Init ==
    /\ pc = "walk"
    /\ dirs_walked = 0 /\ videos_seen = 0
    /\ folder_name = "" /\ files = <<>> /\ any_video = FALSE
    /\ exercise_stats = default_stats("")
    /\ overall_exercise_stats = <<>>
    /\ totals = default_stats("ALL_EXERCISES")
    /\ VIDEO_LOG = <<>> /\ copied = {}
    /\ accepted = FALSE /\ reasons = <<>>
    /\ total_row = <<>>
    /\ cap = "none"
    /\ NoLocals

\* file lists of one directory: distinct names, in the order os.walk gives
FileLists ==
    {fs \in UNION {[1..n -> FileNames] : n \in 0..MaxFiles} :
        \A i, j \in 1..Len(fs) : fs[i] = fs[j] => i = j}

VideoCount(fs) == Cardinality({i \in 1..Len(fs) : IsVideo(fs[i])})

\* os.walk yields a directory without files: `continue`
WalkEmptyDir ==
    /\ pc = "walk"
    /\ dirs_walked < MaxDirs
    /\ dirs_walked' = dirs_walked + 1
    /\ UNCHANGED <<pc, videos_seen, folder_name, files, any_video, stat_vars,
                   out_vars, cap, arg_vars, loop_vars, ret_vars>>

\* os.walk yields a directory with files: a fresh stats record for it
WalkDir(names) ==
    /\ pc = "walk"
    /\ dirs_walked < MaxDirs
    /\ \E name \in names, fs \in FileLists :
        /\ Len(fs) > 0
        /\ videos_seen + VideoCount(fs) <= MaxVideos
        /\ folder_name' = name
        /\ files' = fs
    /\ dirs_walked' = dirs_walked + 1
    /\ exercise_stats' = default_stats(folder_name')
    /\ any_video' = FALSE
    /\ pc' = "files"
    /\ UNCHANGED <<videos_seen, overall_exercise_stats, totals, total_row,
                   out_vars, cap, arg_vars, loop_vars, ret_vars>>

\* a file without a video extension: `continue`
SkipFile ==
    /\ pc = "files"
    /\ files # <<>>
    /\ ~IsVideo(Head(files))
    /\ files' = Tail(files)
    /\ UNCHANGED <<pc, dirs_walked, videos_seen, folder_name, any_video,
                   stat_vars, out_vars, cap, arg_vars, loop_vars, ret_vars>>

\* a video file is reached: total_videos is counted and
\* analyze_video_quality is entered with the given arguments
EnterAnalysis(args) ==
    /\ pc = "files"
    /\ files # <<>>
    /\ IsVideo(Head(files))
    /\ any_video' = TRUE
    /\ videos_seen' = videos_seen + 1
    /\ exercise_stats' = Incr(exercise_stats, "total_videos")
    /\ \E a \in args :
        /\ num_frames' = a[1]
        /\ frame_stride' = a[2]
    /\ UNCHANGED <<dirs_walked, folder_name, files, overall_exercise_stats,
                   totals, total_row, out_vars, loop_vars>>

\* the decoder does not open: analyze_video_quality returns
\* ({}, ["corrupted_file"]) at once
OpenFails(args) ==
    /\ EnterAnalysis(args)
    /\ cap' = "failed"
    /\ metrics' = NoMetrics
    /\ issues' = <<"corrupted_file">>
    /\ pc' = "evaluate"
    /\ UNCHANGED <<width, height, frame_count, motion_flag>>

\* the decoder opens: the locals as they are before the sampling loop
OpenVideo(args, resolutions, counts) ==
    /\ EnterAnalysis(args)
    /\ cap' = "open"
    /\ \E res \in resolutions, fc \in counts :
        /\ width' = res[1]
        /\ height' = res[2]
        /\ frame_count' = fc
    /\ motion_flag' = MotionPolicy(folder_name)
    /\ pc' = "sampling"
    /\ UNCHANGED ret_vars

\* one iteration of the sampling loop in which cap.read() fails
ReadFails ==
    /\ pc = "sampling"
    /\ LoopCond(samples_collected, frame_index, frame_count, num_frames, frame_stride)
    /\ reads' = reads + 1
    /\ frame_index' = SkipIndex(frame_index, frame_stride)
    /\ UNCHANGED <<pc, walk_vars, stat_vars, out_vars, cap, arg_vars,
                   sampled_brightness, sampled_sharpness, samples_collected,
                   prev_gray_for_motion, active_count, motion_pairs,
                   change_ratios, max_change_ratio, decoded, ret_vars>>

\* one iteration of the sampling loop in which cap.read() gives a frame
ReadFrame(brightnesses, sharpnesses) ==
    /\ pc = "sampling"
    /\ LoopCond(samples_collected, frame_index, frame_count, num_frames, frame_stride)
    /\ reads' = reads + 1
    /\ decoded' = decoded + 1
    /\ \E b \in brightnesses, sh \in sharpnesses :
        /\ sampled_brightness' = ListAppend(sampled_brightness, b)
        /\ sampled_sharpness' = ListAppend(sampled_sharpness, sh)
    /\ IF motion_flag
       THEN /\ IF prev_gray_for_motion
               THEN \E ratio \in ChangeRatios :
                       /\ change_ratios' = ListAppend(change_ratios, ratio)
                       /\ max_change_ratio' = Max2(max_change_ratio, ratio)
                       /\ motion_pairs' = motion_pairs + 1
                       /\ active_count' =
                            IF ratio >= MOTION_MIN_PIXEL_CHANGE_RATIO
                            THEN active_count + 1 ELSE active_count
               ELSE UNCHANGED <<change_ratios, max_change_ratio, motion_pairs,
                                active_count>>
            /\ prev_gray_for_motion' = TRUE
       ELSE UNCHANGED <<change_ratios, max_change_ratio, motion_pairs,
                        active_count, prev_gray_for_motion>>
    /\ samples_collected' = samples_collected + 1
    /\ frame_index' = frame_index + frame_stride
    /\ UNCHANGED <<pc, walk_vars, stat_vars, out_vars, cap, arg_vars, ret_vars>>

\* the loop condition is false: cap.release(), the corrupted_file issue and
\* the metrics dictionary; analyze_video_quality returns
FinishAnalysis ==
    /\ pc = "sampling"
    /\ ~LoopCond(samples_collected, frame_index, frame_count, num_frames, frame_stride)
    /\ cap' = "released"
    /\ issues' = IF samples_collected = 0 THEN <<"corrupted_file">> ELSE <<>>
    /\ metrics' = BuildMetrics
    /\ pc' = "evaluate"
    /\ UNCHANGED <<walk_vars, stat_vars, out_vars, arg_vars, loop_vars>>

\* ", ".join(reasons) if reasons else "passed_all_checks", as the list of tags
JoinReasons(rs) ==
    IF rs # <<>> THEN rs ELSE <<"passed_all_checks">>

\* metrics.get(key): None for a missing key
None == <<>>
Some(x) == <<x>>
GetOrNone(d, k) == IF k \in DOMAIN d THEN Some(d[k]) ELSE None

\* the audit record appended to VIDEO_LOG: where the file is, the resolution
\* the decoder reported, the decision and the reasons
LogEntry(dir, name, file, m, acc, rs) ==
    [dir |-> dir, exercise |-> name, file |-> file,
     width |-> GetOrNone(m, "width"), height |-> GetOrNone(m, "height"),
     decision |-> IF acc THEN "accepted" ELSE "rejected",
     reasons |-> JoinReasons(rs)]

\* the copy made whatever the verdict
CopyAlways(acc, tree, path) == tree \cup {path}

\* if accepted: copy_video_with_structure(...), same relative path
CopyIfAccepted(acc, tree, path) == IF acc THEN tree \cup {path} ELSE tree

\* a rejected video that is not counted
CountDecision_acceptedOnly(acc, stats) ==
    IF acc THEN Incr(stats, "accepted_videos") ELSE stats

\* accepted_videos or rejected_videos is counted
CountDecision(acc, stats) ==
    IF acc THEN Incr(stats, "accepted_videos") ELSE Incr(stats, "rejected_videos")

\* evaluate_video_acceptance, the audit record, the copy and the
\* accepted/rejected counter; the locals of the analysis go out of scope
EvaluateVideo ==
    /\ pc = "evaluate"
    /\ LET r == evaluate_video_acceptance(metrics, issues, exercise_stats)
           file == Head(files)
       IN  /\ accepted' = r.accepted
           /\ reasons' = r.reasons
           /\ VIDEO_LOG' = Append(VIDEO_LOG,
                   LogEntry(dirs_walked, folder_name, file, metrics,
                            r.accepted, r.reasons))
           /\ copied' = CopyIfAccepted(r.accepted, copied, <<dirs_walked, file>>)
           /\ exercise_stats' = CountDecision(r.accepted, r.stats)
    /\ files' = Tail(files)
    /\ cap' = "none"
    /\ DropLocals
    /\ pc' = "files"
    /\ UNCHANGED <<dirs_walked, videos_seen, folder_name, any_video,
                   overall_exercise_stats, totals, total_row>>

\* the files of the directory are exhausted: its row and the global totals
EndDir ==
    /\ pc = "files"
    /\ files = <<>>
    /\ IF any_video
       THEN /\ overall_exercise_stats' = Append(overall_exercise_stats, exercise_stats)
            /\ totals' = FoldTotals(totals, exercise_stats)
       ELSE UNCHANGED <<overall_exercise_stats, totals>>
    /\ pc' = "walk"
    /\ UNCHANGED <<walk_vars, exercise_stats, total_row, out_vars, cap,
                   arg_vars, loop_vars, ret_vars>>

\* os.walk is exhausted: generate_cleaning_report
Report ==
    /\ pc = "walk"
    /\ total_row' = IF overall_exercise_stats = <<>> THEN <<>>
                    ELSE TotalRow(overall_exercise_stats)
    /\ pc' = "done"
    /\ UNCHANGED <<walk_vars, exercise_stats, overall_exercise_stats, totals,
                   out_vars, cap, arg_vars, loop_vars, ret_vars>>

(* --------------------------- specifications ---------------------------- *)
\* clean_dataset: the whole directory walk and the report
Next ==
    \/ WalkEmptyDir
    \/ WalkDir(WalkFolderNames)
    \/ SkipFile
    \/ OpenFails(WalkArgs)
    \/ OpenVideo(WalkArgs, WalkResolutions, WalkFrameCounts)
    \/ ReadFails
    \/ ReadFrame(WalkBrightness, WalkSharpness)
    \/ FinishAnalysis
    \/ EvaluateVideo
    \/ EndDir
    \/ Report

Spec == Init /\ [][Next]_vars

\* one video file of one directory, about to be analysed
InitVideo ==
    /\ pc = "files"
    /\ dirs_walked = 1 /\ videos_seen = 0
    /\ folder_name \in FolderNames
    /\ files \in {<<f>> : f \in {g \in FileNames : IsVideo(g)}}
    /\ any_video = FALSE
    /\ exercise_stats = default_stats(folder_name)
    /\ overall_exercise_stats = <<>>
    /\ totals = default_stats("ALL_EXERCISES")
    /\ VIDEO_LOG = <<>> /\ copied = {}
    /\ accepted = FALSE /\ reasons = <<>>
    /\ total_row = <<>>
    /\ cap = "none"
    /\ NoLocals

\* analyze_video_quality and evaluate_video_acceptance on that file, for
\* every argument pair and every decoder output of the input domains, and
\* the row of its directory
NextVideo ==
    \/ OpenFails(CallArgs)
    \/ OpenVideo(CallArgs, Resolutions, FrameCounts)
    \/ ReadFails
    \/ ReadFrame(FrameBrightness, FrameSharpness)
    \/ FinishAnalysis
    \/ EvaluateVideo
    \/ EndDir

SpecVideo == InitVideo /\ [][NextVideo]_vars

(* ------------------------------ claims --------------------------------- *)
\* the step in which evaluate_video_acceptance is applied to a video
EvalStep == pc = "evaluate" /\ pc' = "files"

\* the video under evaluation, read off the metrics as the specification
\* words them
SeenWidth == Get(metrics, "width", 0)
SeenHeight == Get(metrics, "height", 0)
SeenLowResolution == SeenWidth < 640 \/ SeenHeight < 360
SeenCorrupted ==
    \/ Contains(issues, "corrupted_file")
    \/ "mean_brightness" \notin DOMAIN metrics
    \/ "sharpness_score" \notin DOMAIN metrics
    \/ metrics.mean_brightness[2] = 0
    \/ metrics.sharpness_score[2] = 0

LogEntries == {VIDEO_LOG[i] : i \in 1..Len(VIDEO_LOG)}

\* C1, as claimed: every video with width < 640 or height < 360 is rejected
\* with "low_resolution" among its reasons, corrupted videos included.
C1_AsClaimed ==
    [][EvalStep /\ SeenLowResolution
        => accepted' = FALSE /\ Contains(reasons', "low_resolution")]_vars

\* C1, amended: every video with width < 640 or height < 360 is rejected; its
\* reasons contain "low_resolution" when the video is not corrupted, and are
\* exactly ["corrupted_file"] when it is.
C1_LowResolutionRejected ==
    [][EvalStep /\ SeenLowResolution
        => /\ accepted' = FALSE
           /\ ~SeenCorrupted => Contains(reasons', "low_resolution")
           /\ SeenCorrupted => reasons' = <<"corrupted_file">>]_vars

\* C1 witness: a 639x360 video that decoded was rejected for its resolution
\* alone.
C1_Witness ==
    /\ VIDEO_LOG # <<>>
    /\ VIDEO_LOG[1].width = Some(639)
    /\ VIDEO_LOG[1].decision = "rejected"
    /\ VIDEO_LOG[1].reasons = <<"low_resolution">>

\* C2: a video whose decoder does not open, or that decodes no frame, is
\* rejected with reasons exactly ["corrupted_file"]; of the counters only
\* corrupted_files (and rejected_videos) moves, nothing is copied, and the
\* walk goes on with the rest of the directory.
C2_CorruptedOnly ==
    [][EvalStep /\ (cap = "failed" \/ (cap = "released" /\ decoded = 0))
        => /\ accepted' = FALSE
           /\ reasons' = <<"corrupted_file">>
           /\ exercise_stats' =
                [exercise_stats EXCEPT !.corrupted_files = @ + 1,
                                       !.rejected_videos = @ + 1]
           /\ copied' = copied
           /\ Len(VIDEO_LOG') = Len(VIDEO_LOG) + 1
           /\ files' = Tail(files)]_vars

\* C2 witness: an unopenable file and then a file without a decodable frame
\* were both logged as corrupted, the second after the first.
C2_Witness ==
    /\ Len(VIDEO_LOG) = 2
    /\ VIDEO_LOG[1].width = None
    /\ VIDEO_LOG[1].reasons = <<"corrupted_file">>
    /\ VIDEO_LOG[2].width # None
    /\ VIDEO_LOG[2].reasons = <<"corrupted_file">>
    /\ exercise_stats.corrupted_files = 2
    /\ exercise_stats.rejected_videos = 2

\* the criteria of the specification, in its order
CriteriaOrder ==
    <<"low_resolution", "too_dark", "too_bright", "blurry", "insufficient_motion">>

Violates(tag) ==
    LET b == metrics.mean_brightness
        sh == metrics.sharpness_score
    IN  CASE tag = "low_resolution" -> SeenLowResolution
          [] tag = "too_dark" -> b[1] < 35 * b[2]
          [] tag = "too_bright" -> b[1] > 190 * b[2]
          [] tag = "blurry" -> sh[1] < 50 * sh[2]
          [] tag = "insufficient_motion" ->
                metrics.motion_flag /\ ~metrics.motion_detected

\* C3: for a video that is not corrupted the reasons are exactly the violated
\* criteria, in the order low_resolution, too_dark or too_bright, blurry,
\* insufficient_motion, each once.
C3_ReasonsAreViolations ==
    [][EvalStep /\ ~SeenCorrupted
        => reasons' = SelectSeq(CriteriaOrder, Violates)]_vars

\* C3 witness: a video violating four criteria at once was evaluated.
C3_Witness ==
    /\ reasons = <<"low_resolution", "too_dark", "blurry", "insufficient_motion">>
    /\ VIDEO_LOG # <<>>

\* C4: a video is accepted iff the evaluator recorded no reason, and the
\* destination tree holds exactly the paths of the accepted videos.
C4_CopiedIffAccepted ==
    /\ VIDEO_LOG # <<>> => (accepted <=> reasons = <<>>)
    /\ \A e \in LogEntries :
          e.decision = "accepted" <=> e.reasons = <<"passed_all_checks">>
    /\ copied = {<<e.dir, e.file>> : e \in {x \in LogEntries : x.decision = "accepted"}}

\* C4 witness: of two processed videos one was accepted and copied, the other
\* rejected and left out.
C4_Witness ==
    /\ Len(VIDEO_LOG) = 2
    /\ VIDEO_LOG[1].decision = "rejected"
    /\ VIDEO_LOG[2].decision = "accepted"
    /\ copied = {<<VIDEO_LOG[2].dir, VIDEO_LOG[2].file>>}

\* the motion policy of a category is false or the category is not listed
PolicyOff(name) == name \notin DOMAIN MOTION_FLAGS \/ MOTION_FLAGS[name] = FALSE

\* C5: for a category whose policy is false or missing, no video has the
\* reason "insufficient_motion" and the category's counter stays 0.
C5_NoMotionReasonWhenOff ==
    /\ \A e \in LogEntries :
          PolicyOff(e.exercise) => ~Contains(e.reasons, "insufficient_motion")
    /\ PolicyOff(folder_name) => exercise_stats.insufficient_motion = 0
    /\ \A i \in 1..Len(overall_exercise_stats) :
          PolicyOff(overall_exercise_stats[i].Exercise) =>
              overall_exercise_stats[i].insufficient_motion = 0

\* C5 witness: a video of a category missing from the policy was accepted
\* and the row of its directory was made.
C5_Witness ==
    /\ Len(VIDEO_LOG) = 1
    /\ VIDEO_LOG[1].exercise = "misc"
    /\ VIDEO_LOG[1].decision = "accepted"
    /\ Len(overall_exercise_stats) = 1
    /\ overall_exercise_stats[1].Exercise = "misc"

\* the sum of one counter over the rows, by index
RowSum(field) ==
    LET S[i \in 0..Len(overall_exercise_stats)] ==
            IF i = 0 THEN 0 ELSE S[i - 1] + overall_exercise_stats[i][field]
    IN  S[Len(overall_exercise_stats)]

\* directories of which a video was logged
DirsWithVideo == {e.dir : e \in LogEntries}

\* C6: after the walk the running totals, and the TOTAL row when a report is
\* made, carry for each counter the sum over the per-category rows; a
\* directory without video files has no row.
C6_AggregationLaw ==
    pc = "done" =>
        /\ \A f \in CounterFields : totals[f] = RowSum(f)
        /\ overall_exercise_stats # <<>> =>
              /\ total_row.Exercise = "TOTAL"
              /\ \A f \in CounterFields : total_row[f] = RowSum(f)
        /\ overall_exercise_stats = <<>> => total_row = <<>>
        /\ Len(overall_exercise_stats) = Cardinality(DirsWithVideo)
        /\ \A i \in 1..Len(overall_exercise_stats) :
              overall_exercise_stats[i].total_videos > 0

\* C6 witness: the report was made from two rows, with an accepted and a
\* rejected video between them.
C6_Witness ==
    /\ pc = "done"
    /\ Len(overall_exercise_stats) = 2
    /\ total_row # <<>>
    /\ total_row.total_videos = 2
    /\ total_row.accepted_videos = 1
    /\ total_row.rejected_videos = 1

\* C7, as claimed: whenever analyze_video_quality has returned, the decoder
\* handle it acquired has been released.
C7_ReleasedOnEveryExit == pc = "evaluate" => cap = "released"

\* the safety index limit, as the specification words it
SafetyLimit ==
    IF frame_count > num_frames * frame_stride + 1
    THEN frame_count ELSE num_frames * frame_stride + 1

Analysing == pc \in {"sampling", "evaluate"} /\ cap \in {"open", "released"}

\* C8: the sampling loop never makes more iterations than the safety index
\* limit, whatever the frame count and the decode results.
C8_LoopBounded == Analysing => reads <= SafetyLimit

\* C8 witness: a video reporting frame count -1 whose every read failed was
\* left after N*S + 1 iterations.
C8_Witness ==
    /\ pc = "evaluate" /\ cap = "released"
    /\ frame_count = -1
    /\ num_frames > 0
    /\ decoded = 0
    /\ reads = num_frames * frame_stride + 1

\* C9, as claimed: the loop is left only with N frames collected or with the
\* index above the safety limit.
C9_AsClaimed ==
    (pc = "evaluate" /\ cap = "released")
        => (samples_collected >= num_frames \/ frame_index > SafetyLimit)

\* C9, amended: the sampler visits 0, S, 2S, ... and is left only with N
\* frames collected or with the index at or above the safety limit (an index
\* equal to the limit is not attempted); a failed read advances the index
\* without being counted, so the collected count is the number of successful
\* reads and never exceeds N.
C9_SamplerVisits ==
    Analysing =>
        /\ frame_index = reads * frame_stride
        /\ reads > 0 => (reads - 1) * frame_stride < SafetyLimit
        /\ samples_collected = decoded
        /\ decoded <= reads
        /\ samples_collected <= num_frames
        /\ pc = "evaluate" =>
              (samples_collected = num_frames \/ frame_index >= SafetyLimit)

\* C9 witness: reads failed and succeeded, and the loop was left with the
\* index equal to the limit and fewer than N frames.
C9_Witness ==
    /\ pc = "evaluate" /\ cap = "released"
    /\ frame_index = SafetyLimit
    /\ decoded > 0
    /\ decoded < reads
    /\ samples_collected < num_frames

\* C10: in a motion-enabled category motion_pairs is the number of
\* consecutive pairs of sampled frames, motion_active_pairs does not exceed
\* it, and motion_detected holds exactly when there is a pair and the active
\* share is at least 0.3; with fewer than two frames the ratio fields are
\* undefined.
C10_MotionMetrics ==
    (pc = "evaluate" /\ cap = "released" /\ motion_flag) =>
        /\ metrics.motion_pairs = IF decoded >= 1 THEN decoded - 1 ELSE 0
        /\ metrics.motion_active_pairs <= metrics.motion_pairs
        /\ metrics.motion_detected <=>
              /\ metrics.motion_pairs > 0
              /\ 10 * metrics.motion_active_pairs >= 3 * metrics.motion_pairs
        /\ metrics.motion_pairs > 0 =>
              metrics.motion_active_frame_pct =
                  <<metrics.motion_active_pairs, metrics.motion_pairs>>
        /\ decoded < 2 =>
              /\ ~metrics.motion_detected
              /\ metrics.motion_active_frame_pct = NaN
              /\ metrics.motion_mean_change_ratio = NaN
              /\ metrics.motion_max_change_ratio = NaN

\* C10 witness: one active pair out of four, below the 0.3 share.
C10_Witness ==
    /\ pc = "evaluate" /\ cap = "released" /\ motion_flag
    /\ metrics.motion_pairs = 4
    /\ metrics.motion_active_pairs = 1
    /\ ~metrics.motion_detected

\* the six reason counters of a record, summed
ReasonSum(rec) ==
    rec.corrupted_files + rec.low_resolution + rec.too_dark
        + rec.too_bright + rec.blurry + rec.insufficient_motion

Consistent(rec) ==
    /\ rec.total_videos = rec.accepted_videos + rec.rejected_videos
    /\ rec.corrupted_files <= rec.rejected_videos
    /\ rec.rejected_videos <= ReasonSum(rec)

\* audit records of one directory
LoggedFor(dir) == Cardinality({i \in 1..Len(VIDEO_LOG) : VIDEO_LOG[i].dir = dir})

\* the directory of the i-th row: the i-th directory of which a video was logged
DirOfRow(i) ==
    CHOOSE d \in DirsWithVideo : Cardinality({x \in DirsWithVideo : x <= d}) = i

\* C11: between videos every category record has total_videos =
\* accepted_videos + rejected_videos, as many audit records as total_videos,
\* corrupted_files <= rejected_videos and rejected_videos <= the sum of the six
\* reason counters; the audit log is in processing order; after the walk the
\* global totals satisfy the same.
C11_CounterConsistency ==
    /\ pc = "files" =>
          /\ Consistent(exercise_stats)
          /\ LoggedFor(dirs_walked) = exercise_stats.total_videos
    /\ pc \in {"sampling", "evaluate"} =>
          LoggedFor(dirs_walked) = exercise_stats.total_videos - 1
    /\ \A i \in 1..Len(overall_exercise_stats) :
          /\ Consistent(overall_exercise_stats[i])
          /\ LoggedFor(DirOfRow(i)) = overall_exercise_stats[i].total_videos
    /\ \A i, j \in 1..Len(VIDEO_LOG) :
          i < j => /\ VIDEO_LOG[i].dir <= VIDEO_LOG[j].dir
                   /\ <<VIDEO_LOG[i].dir, VIDEO_LOG[i].file>>
                          # <<VIDEO_LOG[j].dir, VIDEO_LOG[j].file>>
    /\ pc = "done" =>
          /\ Consistent(totals)
          /\ Len(VIDEO_LOG) = totals.total_videos

\* C11 witness: a directory with a corrupted video and a video rejected for
\* two reasons at once: two rejections, three reasons, two audit records.
C11_Witness ==
    /\ pc = "done"
    /\ Len(overall_exercise_stats) = 1
    /\ overall_exercise_stats[1].total_videos = 2
    /\ overall_exercise_stats[1].rejected_videos = 2
    /\ overall_exercise_stats[1].corrupted_files = 1
    /\ overall_exercise_stats[1].low_resolution = 1
    /\ overall_exercise_stats[1].insufficient_motion = 1
    /\ Len(VIDEO_LOG) = 2
    /\ totals.rejected_videos = 2

====
